---- MODULE Spec2Model ----
(***************************************************************************)
(* Model of tools/amalgamate.py: InputFile (directive scanning and line    *)
(* filtering), InputFileGraph (add_input_file, topological_sort),          *)
(* OutputBuffer and main.                                                  *)
(*                                                                         *)
(* Text is modelled at character level: a string is a sequence of ASCII    *)
(* codes, a pathlib.Path is the sequence of its parts (each a string).     *)
(***************************************************************************)
EXTENDS Integers, Sequences, FiniteSets, TLC

\* Largest number of files the directory scan hands to main.
MaxFiles == 3

----------------------------------------------------------------------------
(* Generic sequence helpers *)

Range(s) == {s[i] : i \in DOMAIN s}

RECURSIVE Concat(_)
\* s[1] \o s[2] \o ... for a sequence of sequences (list `+=` in a loop)
Concat(ss) == IF ss = <<>> THEN <<>> ELSE Head(ss) \o Concat(Tail(ss))

RECURSIVE Reverse(_)
Reverse(s) == IF s = <<>> THEN <<>> ELSE Reverse(Tail(s)) \o <<Head(s)>>

RECURSIVE StrLess(_, _)
\* str < str: character by character; a proper prefix is smaller
StrLess(s, t) ==
    IF t = <<>> THEN FALSE
    ELSE IF s = <<>> THEN TRUE
    ELSE IF Head(s) < Head(t) THEN TRUE
    ELSE IF Head(t) < Head(s) THEN FALSE
    ELSE StrLess(Tail(s), Tail(t))

\* position of the first element of s that is x (0 if none)
IndexOf(s, x) == IF x \in Range(s) THEN CHOOSE i \in DOMAIN s : s[i] = x /\ \A j \in 1..(i-1) : s[j] # x ELSE 0

----------------------------------------------------------------------------
(* String literals of the program *)

STR_HASH == <<35>>
STR_SPACE == <<32>>
STR_SLASH == <<47>>
STR_DOT == <<46>>
STR_PRAGMA == <<112, 114, 97, 103, 109, 97>>
STR_ONCE == <<111, 110, 99, 101>>
STR_INCLUDE == <<105, 110, 99, 108, 117, 100, 101>>
STR_LT == <<60>>
STR_GT == <<62>>
STR_QUOTE == <<34>>
STR_INLINE == <<105, 110, 108, 105, 110, 101>>
\* 'MANTLE_SOURCE_INLINE'
STR_SENTINEL == <<77, 65, 78, 84, 76, 69, 95, 83, 79, 85, 82, 67, 69, 95, 73, 78, 76, 73, 78, 69>>
\* '// '
STR_COMMENT == <<47, 47, 32>>
\* '#pragma once'
STR_PRAGMA_ONCE == STR_HASH \o STR_PRAGMA \o STR_SPACE \o STR_ONCE
\* '#include <'
STR_INCLUDE_OPEN == STR_HASH \o STR_INCLUDE \o STR_SPACE \o STR_LT
\* 'No files found'
STR_NO_FILES == <<78, 111, 32, 102, 105, 108, 101, 115, 32, 102, 111, 117, 110, 100>>

\* '.c', '.cpp'
SOURCE_EXTENSIONS == {<<46, 99>>, <<46, 99, 112, 112>>}
\* '.h', '.hpp'
HEADER_EXTENSIONS == {<<46, 104>>, <<46, 104, 112, 112>>}

----------------------------------------------------------------------------
(* Regular expressions *)

\* \s of Python's re on str: space, \t, \n, \v, \f, \r
IsWhitespace(c) == c \in {32, 9, 10, 11, 12, 13}

\* first position >= i of s that holds no whitespace (Len(s)+1 if none): \s*
SkipWs(s, i) ==
    IF \E j \in i..Len(s) : ~IsWhitespace(s[j])
    THEN CHOOSE j \in i..Len(s) : ~IsWhitespace(s[j]) /\ \A m \in i..(j-1) : IsWhitespace(s[m])
    ELSE Len(s) + 1

\* the literal lit stands in s at position i
HasLit(s, i, lit) ==
    /\ i >= 1
    /\ i + Len(lit) - 1 <= Len(s)
    /\ \A m \in 1..Len(lit) : s[i + m - 1] = lit[m]

\* substring test: `lit in s`
Contains(s, lit) == \E i \in 1..(Len(s) - Len(lit) + 1) : HasLit(s, i, lit)

\* re.match(r'^#\s*pragma\s*once\s*$', line)
MatchPragmaOnce(line) ==
    /\ HasLit(line, 1, STR_HASH)
    /\ LET i == SkipWs(line, 2) IN
       /\ HasLit(line, i, STR_PRAGMA)
       /\ LET j == SkipWs(line, i + Len(STR_PRAGMA)) IN
          /\ HasLit(line, j, STR_ONCE)
          /\ SkipWs(line, j + Len(STR_ONCE)) = Len(line) + 1

\* re.findall(r'^#\s*include\s*<open>(.+)<close>\s*$', line): the captured
\* groups, none or one. The group is greedy, and what follows the closing
\* character must be whitespace to the end, so the closing character is the
\* last character of the line that is not whitespace.
FindInclude(line, open, close) ==
    IF ~HasLit(line, 1, STR_HASH) THEN <<>>
    ELSE LET i == SkipWs(line, 2) IN
         IF ~HasLit(line, i, STR_INCLUDE) THEN <<>>
         ELSE LET j == SkipWs(line, i + Len(STR_INCLUDE)) IN
              IF ~HasLit(line, j, open) THEN <<>>
              ELSE LET ends == {e \in (j + 2)..Len(line) :
                                   /\ HasLit(line, e, close)
                                   /\ SkipWs(line, e + 1) = Len(line) + 1}
                   IN IF ends = {} THEN <<>>
                      ELSE LET e == CHOOSE x \in ends : \A y \in ends : y <= x
                           IN <<SubSeq(line, j + 1, e - 1)>>

\* EXTERNAL_INCLUDE_PATTERN
FindExternalInclude(line) == FindInclude(line, STR_LT, STR_GT)

\* INTERNAL_INCLUDE_PATTERN
FindInternalInclude(line) == FindInclude(line, STR_QUOTE, STR_QUOTE)

----------------------------------------------------------------------------
(* pathlib.PurePosixPath *)

RECURSIVE Split(_, _)
\* str.split(sep) for a one-character separator
Split(s, sep) ==
    LET i == IndexOf(s, sep) IN
    IF i = 0 THEN <<s>>
    ELSE <<SubSeq(s, 1, i - 1)>> \o Split(SubSeq(s, i + 1, Len(s)), sep)

\* Path(str): the parts. A leading '/' (or exactly two) is the root and the
\* first part; empty components and '.' components are dropped.
PathOf(s) ==
    LET root == IF HasLit(s, 1, STR_SLASH)
                THEN IF HasLit(s, 2, STR_SLASH) /\ ~HasLit(s, 3, STR_SLASH)
                     THEN <<STR_SLASH \o STR_SLASH>>
                     ELSE <<STR_SLASH>>
                ELSE <<>>
        comps == Split(s, 47)
    IN root \o SelectSeq(comps, LAMBDA c : c # <<>> /\ c # STR_DOT)

RECURSIVE JoinParts(_)
JoinParts(parts) ==
    IF parts = <<>> THEN <<>>
    ELSE IF Len(parts) = 1 THEN parts[1]
    ELSE parts[1] \o STR_SLASH \o JoinParts(Tail(parts))

\* str(path)
PathStr(p) ==
    IF p = <<>> THEN STR_DOT
    ELSE IF 47 \in Range(p[1]) THEN p[1] \o JoinParts(Tail(p))
    ELSE JoinParts(p)

RECURSIVE PathLess(_, _)
\* path < path: PurePath.__lt__ compares the lists of parts, part by part,
\* each part as a str; a proper prefix is smaller
PathLess(p, q) ==
    IF q = <<>> THEN FALSE
    ELSE IF p = <<>> THEN TRUE
    ELSE IF StrLess(Head(p), Head(q)) THEN TRUE
    ELSE IF StrLess(Head(q), Head(p)) THEN FALSE
    ELSE PathLess(Tail(p), Tail(q))

\* path.suffix: from the last '.' of the final part, unless that dot is the
\* first or the last character of the name
Suffix(p) ==
    IF p = <<>> \/ 47 \in Range(p[Len(p)]) THEN <<>>
    ELSE LET name == p[Len(p)]
             dots == {i \in DOMAIN name : name[i] = 46}
         IN IF dots = {} THEN <<>>
            ELSE LET i == CHOOSE x \in dots : \A y \in dots : y <= x
                 IN IF 1 < i /\ i < Len(name) THEN SubSeq(name, i, Len(name)) ELSE <<>>

----------------------------------------------------------------------------
(* The files the directory scan can find *)

\* 'src'
STR_SRC == <<115, 114, 99>>
\* 'a.h', 'b.h', 'e.h', 'c.cpp', 'x.h'
NAME_A_H == <<97, 46, 104>>
NAME_B_H == <<98, 46, 104>>
NAME_E_H == <<101, 46, 104>>
NAME_C_CPP == <<99, 46, 99, 112, 112>>
NAME_X_H == <<120, 46, 104>>

\* include/a.h, include/b.h, include/e.h, src/a.h (a second header of identity
\* a.h), src/c.cpp
PATH_INC_A == <<STR_INCLUDE, NAME_A_H>>
PATH_INC_B == <<STR_INCLUDE, NAME_B_H>>
PATH_INC_E == <<STR_INCLUDE, NAME_E_H>>
PATH_SRC_A == <<STR_SRC, NAME_A_H>>
PATH_SRC_C == <<STR_SRC, NAME_C_CPP>>

InternalLine(name) == STR_HASH \o STR_INCLUDE \o STR_SPACE \o STR_QUOTE \o name \o STR_QUOTE
ExternalLine(tok) == STR_HASH \o STR_INCLUDE \o STR_SPACE \o STR_LT \o tok \o STR_GT

\* '#include "a.h"', '#include "b.h"', '#include "e.h"', '#include "x.h"' (no
\* such file), '#include "c.cpp"' (names a source file)
LINE_INC_A == InternalLine(NAME_A_H)
LINE_INC_B == InternalLine(NAME_B_H)
LINE_INC_E == InternalLine(NAME_E_H)
LINE_INC_X == InternalLine(NAME_X_H)
LINE_INC_C == InternalLine(NAME_C_CPP)
\* '#include <a/a>', '#include <a.a>', '#include <a//a>'
LINE_EXT_DIR == ExternalLine(<<97, 47, 97>>)
LINE_EXT_DOT == ExternalLine(<<97, 46, 97>>)
LINE_EXT_DBL == ExternalLine(<<97, 47, 47, 97>>)
\* '#pragma once', '  #pragma once', '# pragma  once '
LINE_GUARD == STR_PRAGMA_ONCE
LINE_GUARD_INDENTED == STR_SPACE \o STR_SPACE \o STR_PRAGMA_ONCE
LINE_GUARD_SPACED == STR_HASH \o STR_SPACE \o STR_PRAGMA \o STR_SPACE \o STR_SPACE \o STR_ONCE \o STR_SPACE
\* 'x', 'MANTLE_SOURCE_INLINE x'
LINE_TEXT == <<120>>
LINE_SENTINEL == STR_SENTINEL \o STR_SPACE \o <<120>>

\* What each path may hold: the lines read_file_lines returns for it.
ContentsOf(path) ==
    CASE path = PATH_INC_A ->
           { <<LINE_GUARD, LINE_EXT_DIR, LINE_TEXT>>,
             <<LINE_GUARD_INDENTED, LINE_INC_B, LINE_EXT_DOT>>,
             <<LINE_INC_A>> }
      [] path = PATH_INC_B ->
           { <<LINE_GUARD, LINE_INC_A, LINE_EXT_DOT, LINE_TEXT>>,
             <<LINE_INC_A, LINE_INC_A, LINE_EXT_DBL>>,
             <<LINE_INC_X, LINE_TEXT>>,
             <<LINE_INC_E>>,
             <<LINE_GUARD_SPACED, LINE_EXT_DIR>> }
      [] path = PATH_INC_E ->
           { <<LINE_INC_A>>,
             <<LINE_TEXT>> }
      [] path = PATH_SRC_A ->
           { <<LINE_GUARD, LINE_TEXT>>,
             <<LINE_INC_B>> }
      [] path = PATH_SRC_C ->
           { <<LINE_INC_B, LINE_EXT_DIR, LINE_SENTINEL>>,
             <<LINE_INC_A, LINE_INC_B, LINE_EXT_DOT>>,
             <<LINE_INC_C>>,
             <<LINE_TEXT, LINE_EXT_DOT, LINE_EXT_DIR>> }

FilePaths == {PATH_INC_A, PATH_INC_B, PATH_INC_E, PATH_SRC_A, PATH_SRC_C}

\* a file on disk: its path and its lines
DiskFiles == UNION {{[file_path |-> p, text |-> t] : t \in ContentsOf(p)} : p \in FilePaths}

\* The lists collect_file_paths can return: up to MaxFiles files of distinct paths.
FileLists ==
    UNION {{fl \in [1..n -> DiskFiles] :
              \A i, j \in 1..n : i # j => fl[i].file_path # fl[j].file_path}
           : n \in 0..MaxFiles}

----------------------------------------------------------------------------
(* InputFile *)

\* include_file_path of a source file
None == << <<>> >>

\* InputFile.__init__: kind, identity, and the scan of the lines
InputFile(f) ==
    LET src == Suffix(f.file_path) \in SOURCE_EXTENSIONS IN
    [ file_path |-> f.file_path,
      is_source_file |-> src,
      is_header_file |-> Suffix(f.file_path) \in HEADER_EXTENSIONS,
      include_file_path |-> IF src THEN None ELSE Tail(f.file_path),
      lines |-> f.text,
      external_includes |-> Concat([i \in DOMAIN f.text |->
                                      IF FindExternalInclude(f.text[i]) = <<>> THEN <<>>
                                      ELSE <<PathOf(FindExternalInclude(f.text[i])[1])>>]),
      internal_includes |-> Concat([i \in DOMAIN f.text |->
                                      IF FindInternalInclude(f.text[i]) = <<>> THEN <<>>
                                      ELSE <<PathOf(FindInternalInclude(f.text[i])[1])>>]) ]

\* a variant that drops only the lines that are exactly '#pragma once'
RemovePragmaOnceLinesExact(lines) == SelectSeq(lines, LAMBDA l : l # STR_PRAGMA_ONCE)

\* InputFile.remove_pragma_once_lines
RemovePragmaOnceLines(lines) == SelectSeq(lines, LAMBDA l : ~MatchPragmaOnce(l))

\* InputFile.remove_external_includes
RemoveExternalIncludes(lines) == SelectSeq(lines, LAMBDA l : FindExternalInclude(l) = <<>>)

\* InputFile.remove_internal_includes
RemoveInternalIncludes(lines) == SelectSeq(lines, LAMBDA l : FindInternalInclude(l) = <<>>)

----------------------------------------------------------------------------
(* State *)

VARIABLES
    entry,              \* "main": the script is run; "graph": InputFileGraph is used directly
    pc,                 \* where the run stands
    file_paths,         \* main: the files found (each with the lines it reads)
    nodes,              \* InputFileGraph.nodes: the InputFile objects, in insertion order
    edges,              \* InputFileGraph.edges: (node, include target) pairs
    header_file_index,  \* topological_sort: include_file_path -> node
    in_degree,          \* topological_sort: include_file_path -> count
    queue,              \* topological_sort: deque of nodes
    result,             \* topological_sort: result list
    node,               \* topological_sort: the node popped last
    k,                  \* topological_sort: position in node.internal_includes
    input_files,        \* main: the list topological_sort returned
    w,                  \* main: position in input_files of the writing loop
    output,             \* OutputBuffer.lines
    stdout,             \* the lines printed
    err                 \* the exception or exit that ended the run ("none": none)

vars == <<entry, pc, file_paths, nodes, edges, header_file_index, in_degree, queue,
          result, node, k, input_files, w, output, stdout, err>>

graphVars == <<nodes, edges>>
sortVars == <<header_file_index, in_degree, queue, result, node, k>>
outVars == <<w, output, stdout>>

\* An InputFile object is named by its position in nodes.
Headers == {n \in DOMAIN nodes : nodes[n].is_header_file}

----------------------------------------------------------------------------
(* InputFileGraph *)

\* topological_sort, the index and the counters' keys: for equal keys the
\* dict comprehension keeps the last node
HeaderFileIndex(ns) ==
    LET hs == {n \in DOMAIN ns : ns[n].is_header_file} IN
    [p \in {ns[n].include_file_path : n \in hs} |->
        CHOOSE n \in hs : /\ ns[n].include_file_path = p
                          /\ \A m \in hs : ns[m].include_file_path = p => m <= n]

\* the include targets that are no key of the counters
UnknownTargetsIgnored(index, es) == {}

\* the include targets that are no key of the counters: `in_degree[...] += 1`
\* raises KeyError on the first of them
UnknownTargets(index, es) == {es[i][2] : i \in DOMAIN es} \ DOMAIN index

RECURSIVE CountEdgesOncePerFile(_, _)
\* a variant that counts a header once for each file that references it
CountEdgesOncePerFile(deg, es) ==
    IF es = <<>> THEN deg
    ELSE LET rest == Tail(es) IN
         IF \E i \in DOMAIN rest : rest[i] = Head(es)
         THEN CountEdgesOncePerFile(deg, rest)
         ELSE CountEdgesOncePerFile([deg EXCEPT ![Head(es)[2]] = @ + 1], rest)

RECURSIVE CountEdges(_, _)
\* in_degree[target] += 1 for each edge in turn (every target is a key)
CountEdges(deg, es) ==
    IF es = <<>> THEN deg
    ELSE CountEdges([deg EXCEPT ![Head(es)[2]] = @ + 1], Tail(es))

\* a variant that seeds every record
SeedQueueAll(ns, deg) == [i \in DOMAIN ns |-> i]

\* a variant that seeds the source files first, then the headers
SeedQueueSourcesFirst(ns, deg) ==
    SelectSeq([i \in DOMAIN ns |-> i], LAMBDA n : ns[n].is_source_file)
      \o SelectSeq([i \in DOMAIN ns |-> i],
                   LAMBDA n : ns[n].is_header_file /\ deg[ns[n].include_file_path] = 0)

\* the initial queue: the source files and the headers nothing includes, in
\* the order of nodes
SeedQueue(ns, deg) ==
    SelectSeq([i \in DOMAIN ns |-> i],
              LAMBDA n : \/ ns[n].is_source_file
                         \/ (ns[n].is_header_file /\ deg[ns[n].include_file_path] = 0))

\* a variant with the comparison turned round
CycleFoundFlipped(res, ns) == Len(res) > Len(ns)

\* `len(result) < len(self.nodes)`: the queue ran dry before every node was reached
CycleFound(res, ns) == Len(res) < Len(ns)

\* a variant that returns the list as built
SortedResultNotReversed(res) == res

\* the list topological_sort returns
SortedResult(res) == Reverse(res)

----------------------------------------------------------------------------
(* OutputBuffer and main's use of it *)

RECURSIVE SortPathsByText(_)
\* a variant that sorts the paths by their text
SortPathsByText(S) ==
    IF S = {} THEN <<>>
    ELSE LET m == CHOOSE x \in S : \A y \in S : y = x \/ StrLess(PathStr(x), PathStr(y))
         IN <<m>> \o SortPathsByText(S \ {m})

RECURSIVE SortPaths(_)
\* sorted(list(set(...))) of paths
SortPaths(S) ==
    IF S = {} THEN <<>>
    ELSE LET m == CHOOSE x \in S : \A y \in S : y = x \/ PathLess(x, y)
         IN <<m>> \o SortPaths(S \ {m})

\* OutputBuffer.write_external_include: the line written
ExternalIncludeLine(path) == STR_INCLUDE_OPEN \o PathStr(path) \o STR_GT

\* main: the external include block
ExternalBlock(ns, order) ==
    LET all == Concat([i \in DOMAIN order |-> ns[order[i]].external_includes])
        sorted == SortPaths(Range(all))
    IN [i \in DOMAIN sorted |-> ExternalIncludeLine(sorted[i])]

\* InputFile.lines after the three removals of main's writing loop
CleanLines(lines) == RemoveInternalIncludes(RemoveExternalIncludes(RemovePragmaOnceLines(lines)))

\* main: a body line as written
BodyLine(line) == IF Contains(line, STR_SENTINEL) THEN STR_INLINE ELSE line

\* main: what the writing loop appends for one input file
FileBlock(input_file) ==
    LET lines == CleanLines(input_file.lines) IN
    <<STR_COMMENT \o PathStr(input_file.file_path)>>
      \o [i \in DOMAIN lines |-> BodyLine(lines[i])]
      \o << <<>> >>

----------------------------------------------------------------------------
(* Actions *)

InitCommon ==
    /\ file_paths \in FileLists
    /\ nodes = <<>>
    /\ edges = <<>>
    /\ header_file_index = <<>>
    /\ in_degree = <<>>
    /\ queue = <<>>
    /\ result = <<>>
    /\ node = 0
    /\ k = 0
    /\ input_files = <<>>
    /\ w = 0
    /\ output = <<>>
    /\ stdout = <<>>
    /\ err = "none"

\* main is run on the files found, or a caller builds the graph of them itself
Init ==
    /\ InitCommon
    /\ \/ entry = "main" /\ pc = "main"
       \/ entry = "graph" /\ pc = "add"

\* a variant of main without the file count check
MainCheckFilesMissing ==
    /\ pc = "main"
    /\ pc' = "add"
    /\ UNCHANGED <<entry, file_paths, graphVars, sortVars, input_files, outVars, err>>

\* main: `if len(file_paths) == 0`, then InputFileGraph()
MainCheckFiles ==
    /\ pc = "main"
    /\ IF Len(file_paths) = 0
       THEN /\ stdout' = <<STR_NO_FILES>>
            /\ err' = "SystemExit"
            /\ pc' = "exit"
       ELSE /\ pc' = "add"
            /\ UNCHANGED <<stdout, err>>
    /\ UNCHANGED <<entry, file_paths, graphVars, sortVars, input_files, w, output>>

\* InputFileGraph.add_input_file(InputFile(file_path)), for the next file
AddInputFile ==
    /\ pc = "add"
    /\ Len(nodes) < Len(file_paths)
    /\ LET input_file == InputFile(file_paths[Len(nodes) + 1])
           n == Len(nodes) + 1
       IN /\ nodes' = Append(nodes, input_file)
          /\ edges' = edges \o [i \in DOMAIN input_file.internal_includes |->
                                  <<n, input_file.internal_includes[i]>>]
    /\ UNCHANGED <<entry, pc, file_paths, sortVars, input_files, outVars, err>>

\* topological_sort: the index, the counters, the initial queue
SortBegin ==
    /\ pc = "add"
    /\ Len(nodes) = Len(file_paths)
    /\ LET index == HeaderFileIndex(nodes)
           zero == [p \in DOMAIN index |-> 0]
       IN /\ header_file_index' = index
          /\ IF UnknownTargets(zero, edges) # {}
             THEN \* in_degree[...] += 1 on a missing key
                  /\ in_degree' = zero
                  /\ err' = "KeyError"
                  /\ pc' = "exit"
                  /\ UNCHANGED queue
             ELSE /\ in_degree' = CountEdges(zero, edges)
                  /\ queue' = SeedQueue(nodes, in_degree')
                  /\ pc' = "loop"
                  /\ UNCHANGED err
    /\ UNCHANGED <<entry, file_paths, graphVars, result, node, k, input_files, outVars>>

\* topological_sort: `node = queue.popleft(); result.append(node)`
SortPop ==
    /\ pc = "loop"
    /\ queue # <<>>
    /\ node' = Head(queue)
    /\ queue' = Tail(queue)
    /\ result' = Append(result, Head(queue))
    /\ k' = 1
    /\ pc' = IF nodes[Head(queue)].internal_includes = <<>> THEN "loop" ELSE "dec"
    /\ UNCHANGED <<entry, file_paths, graphVars, header_file_index, in_degree,
                   input_files, outVars, err>>

\* topological_sort: one round of `for include_target in node.internal_includes`
SortDecrement ==
    /\ pc = "dec"
    /\ LET include_target == nodes[node].internal_includes[k]
           d == in_degree[include_target] - 1
       IN /\ in_degree' = [in_degree EXCEPT ![include_target] = d]
          /\ queue' = IF d = 0 THEN Append(queue, header_file_index[include_target])
                      ELSE queue
    /\ k' = k + 1
    /\ pc' = IF k = Len(nodes[node].internal_includes) THEN "loop" ELSE "dec"
    /\ UNCHANGED <<entry, file_paths, graphVars, header_file_index, result, node,
                   input_files, outVars, err>>

\* topological_sort: the queue is empty; raise or return
SortEnd ==
    /\ pc = "loop"
    /\ queue = <<>>
    /\ IF CycleFound(result, nodes)
       THEN /\ err' = "RuntimeError"
            /\ pc' = "exit"
            /\ UNCHANGED input_files
       ELSE /\ input_files' = SortedResult(result)
            /\ pc' = IF entry = "main" THEN "write" ELSE "returned"
            /\ UNCHANGED err
    /\ UNCHANGED <<entry, file_paths, graphVars, sortVars, outVars>>

\* main: the guard, a blank line, the external includes, a blank line
WriteHeader ==
    /\ pc = "write"
    /\ output = <<>>
    /\ output' = <<STR_PRAGMA_ONCE, <<>> >> \o ExternalBlock(nodes, input_files) \o << <<>> >>
    /\ w' = 1
    /\ UNCHANGED <<entry, pc, file_paths, graphVars, sortVars, input_files, stdout, err>>

\* main: one round of the loop that writes the input files
WriteInputFile ==
    /\ pc = "write"
    /\ output # <<>>
    /\ w <= Len(input_files)
    /\ LET n == input_files[w] IN
       /\ output' = output \o FileBlock(nodes[n])
       /\ nodes' = [nodes EXCEPT ![n].lines = CleanLines(@)]
    /\ w' = w + 1
    /\ UNCHANGED <<entry, pc, file_paths, edges, sortVars, input_files, stdout, err>>

\* main: print('\n'.join(output.lines))
PrintOutput ==
    /\ pc = "write"
    /\ output # <<>>
    /\ w > Len(input_files)
    /\ stdout' = output
    /\ pc' = "done"
    /\ UNCHANGED <<entry, file_paths, graphVars, sortVars, input_files, w, output, err>>

Next ==
    \/ MainCheckFiles
    \/ AddInputFile
    \/ SortBegin
    \/ SortPop
    \/ SortDecrement
    \/ SortEnd
    \/ WriteHeader
    \/ WriteInputFile
    \/ PrintOutput

Spec == Init /\ [][Next]_vars

----------------------------------------------------------------------------
(* Vocabulary of the properties *)

\* every file found has been added to the graph and topological_sort was called
SortCalled == pc \notin {"main", "add"} /\ err # "SystemExit"

\* topological_sort returned a list
SortReturned == pc \in {"write", "returned", "done"}

\* the run (or the call of topological_sort) is over
Ended == pc \in {"exit", "returned", "done"}

\* record a holds an internal reference that equals header h's identity
DependsOn(a, h) ==
    /\ h \in Headers
    /\ nodes[h].include_file_path \in Range(nodes[a].internal_includes)

Dependencies(a) == {h \in Headers : DependsOn(a, h)}

RECURSIVE Closure(_)
Closure(S) ==
    LET T == S \cup UNION {Dependencies(x) : x \in S}
    IN IF T = S THEN S ELSE Closure(T)

\* the depends-on relation has a cycle (a self-reference included)
HasCycle == \E n \in DOMAIN nodes : n \in Closure(Dependencies(n))

\* the identities of the header records
Identities == {nodes[h].include_file_path : h \in Headers}

\* every internal reference equals some header's identity
AllResolve == \A i \in DOMAIN edges : edges[i][2] \in Identities

\* two header records of one identity
DuplicateIdentity ==
    \E g, h \in Headers : g # h /\ nodes[g].include_file_path = nodes[h].include_file_path

\* every internal reference equals exactly one header's identity
UniquelyResolved ==
    \A i \in DOMAIN edges :
        Cardinality({h \in Headers : nodes[h].include_file_path = edges[i][2]}) = 1

\* position of record n in a list of records (0: not in it)
Pos(list, n) == IndexOf(list, n)

\* the lines of the printed output that are record n's path comment
CommentLines(n) ==
    {i \in DOMAIN stdout : stdout[i] = STR_COMMENT \o PathStr(nodes[n].file_path)}

\* the printed output's external block: the lines after the first blank line
\* up to the next blank line
BlockEnd == CHOOSE i \in 3..Len(stdout) : stdout[i] = <<>> /\ \A j \in 3..(i-1) : stdout[j] # <<>>
ExternalBlockPrinted == SubSeq(stdout, 3, BlockEnd - 1)

\* the external tokens, as written in the files found
ExternalTokens ==
    UNION {{FindExternalInclude(file_paths[f].text[i])[1] :
              i \in {x \in DOMAIN file_paths[f].text :
                        FindExternalInclude(file_paths[f].text[x]) # <<>>}}
           : f \in DOMAIN file_paths}

\* a record the initial queue holds: a source file or a header nothing references
Seeded(n) ==
    \/ nodes[n].is_source_file
    \/ (n \in Headers /\ \A i \in DOMAIN edges : edges[i][2] # nodes[n].include_file_path)

\* the record whose reference releases header h: of those that reference h,
\* the one dequeued last; and the place of its last reference to h
Releaser(h) ==
    CHOOSE m \in DOMAIN nodes :
        /\ DependsOn(m, h)
        /\ \A x \in DOMAIN nodes : DependsOn(x, h) => Pos(result, x) <= Pos(result, m)
ReleasePlace(h) ==
    LET inc == nodes[Releaser(h)].internal_includes
    IN CHOOSE i \in DOMAIN inc :
        /\ inc[i] = nodes[h].include_file_path
        /\ \A j \in DOMAIN inc : inc[j] = nodes[h].include_file_path => j <= i

\* headers g and h become eligible while the same record is processed
ReleasedTogether(g, h) ==
    /\ g \in Headers /\ h \in Headers /\ g # h
    /\ ~Seeded(g) /\ ~Seeded(h)
    /\ Releaser(g) = Releaser(h)

\* the place of edge i among the references of its record
EdgePlace(i) == Cardinality({j \in 1..i : edges[j][1] = edges[i][1]})

\* the loop of topological_sort has gone through edge i
EdgeProcessed(i) ==
    /\ edges[i][1] \in Range(result)
    /\ ~(pc = "dec" /\ edges[i][1] = node /\ EdgePlace(i) >= k)

\* a line that is '#pragma once' once leading whitespace is dropped too
IsGuardLineLoose(line) ==
    MatchPragmaOnce(SubSeq(line, SkipWs(line, 1), Len(line)))

RECURSIVE SumBlockLens(_)
\* lines the body section takes for a set of records: comment, cleaned lines, blank
SumBlockLens(S) ==
    IF S = {} THEN 0
    ELSE LET n == CHOOSE x \in S : TRUE
         IN Len(nodes[n].lines) + 2 + SumBlockLens(S \ {n})

----------------------------------------------------------------------------
(* Properties *)

\* C1: whenever topological_sort returns, every header that a record
\* references stands strictly before that record in the returned list, and in
\* the printed output the header's path comment is on an earlier line than
\* the record's.
C1_DependencyOrder ==
    SortReturned =>
        \A a \in DOMAIN nodes : \A h \in Dependencies(a) :
            /\ Pos(input_files, h) >= 1
            /\ Pos(input_files, h) < Pos(input_files, a)
            /\ pc = "done" =>
                 /\ CommentLines(h) # {}
                 /\ CommentLines(a) # {}
                 /\ \A i \in CommentLines(h) : \A j \in CommentLines(a) : i < j

\* a chain of three (c.cpp -> b.h -> a.h or the like) has been printed
C1_Witness ==
    /\ pc = "done"
    /\ \E a, h, g \in DOMAIN nodes : DependsOn(a, h) /\ DependsOn(h, g)

\* C2 as stated: whenever the depends-on relation has a cycle, topological_sort
\* fails with the cycle error and nothing is printed.
C2_CycleAlwaysCycleError ==
    (SortCalled /\ HasCycle) =>
        /\ stdout = <<>>
        /\ pc \notin {"loop", "dec"} => err = "RuntimeError"

\* C2, amended: whenever the depends-on relation has a cycle, topological_sort
\* fails and nothing is written or printed; the failure is the cycle error
\* when every internal reference resolves, and the KeyError of the first
\* counting loop when some reference resolves to no header.
C2_CycleRejected ==
    (SortCalled /\ HasCycle) =>
        /\ stdout = <<>>
        /\ output = <<>>
        /\ pc \in {"loop", "dec", "exit"}
        /\ pc = "exit" => err = (IF AllResolve THEN "RuntimeError" ELSE "KeyError")

\* a cycle through three headers was rejected with the cycle error
C2_Witness ==
    /\ pc = "exit"
    /\ err = "RuntimeError"
    /\ \E a, b, c \in Headers :
         /\ a # b /\ b # c /\ a # c
         /\ DependsOn(a, b) /\ DependsOn(b, c) /\ DependsOn(c, a)

\* C3: whenever the run succeeds, every record added stands exactly once in
\* the returned list, and the printed body section holds exactly one block
\* (path comment, body lines, blank line) for every record and nothing else.
C3_Completeness ==
    /\ SortReturned =>
         /\ Len(input_files) = Len(nodes)
         /\ \A n \in DOMAIN nodes : Cardinality({i \in DOMAIN input_files : input_files[i] = n}) = 1
    /\ pc = "done" =>
         /\ \A n \in DOMAIN nodes :
              /\ Cardinality(CommentLines(n)) = 1
              /\ \A i \in CommentLines(n) :
                   /\ i > BlockEnd
                   /\ i + Len(nodes[n].lines) + 1 <= Len(stdout)
                   /\ \A j \in DOMAIN nodes[n].lines :
                        stdout[i + j] = BodyLine(nodes[n].lines[j])
                   /\ stdout[i + Len(nodes[n].lines) + 1] = <<>>
         /\ Len(stdout) = BlockEnd + SumBlockLens(DOMAIN nodes)

\* three records were printed
C3_Witness ==
    /\ pc = "done"
    /\ Len(nodes) = 3

\* C4: when some internal reference equals no header's identity (a reference
\* that names a source file included), topological_sort ends with KeyError,
\* which no other failure raises, and nothing is written or printed.
C4_UnresolvedReference ==
    /\ (SortCalled /\ ~AllResolve) =>
         /\ pc = "exit"
         /\ err = "KeyError"
         /\ output = <<>>
         /\ stdout = <<>>
    /\ err = "KeyError" => ~AllResolve

\* a reference naming the source file src/c.cpp by its would-be identity
\* ended the run with KeyError
C4_Witness ==
    /\ err = "KeyError"
    /\ \E n \in DOMAIN nodes :
         /\ nodes[n].is_source_file
         /\ \E i \in DOMAIN edges : edges[i][2] = Tail(nodes[n].file_path)

\* C5 as stated: with two header records of one identity the run never
\* succeeds: topological_sort returns no list and nothing is printed.
C5_DuplicateIdentityRejected ==
    (SortCalled /\ DuplicateIdentity) =>
        /\ ~SortReturned
        /\ stdout = <<>>

\* C6 as stated: of two records that become eligible together, the one added
\* first comes first in the returned list.
C6_InsertionOrder ==
    SortReturned =>
        \A m, n \in DOMAIN nodes :
            (m < n /\ ((Seeded(m) /\ Seeded(n)) \/ ReleasedTogether(m, n)))
                => Pos(input_files, m) < Pos(input_files, n)

\* C6, amended: records that become eligible together are dequeued in queue
\* order - the seeded records in insertion order, the headers released by one
\* record in the order of that record's references - and the returned list is
\* the reverse of the dequeue order: of two seeded records the one added first
\* comes later in the returned list, and of two headers released by the same
\* record the one referenced first comes later.
C6_ReverseQueueOrder ==
    SortReturned =>
        \A m, n \in DOMAIN nodes :
            /\ (m < n /\ Seeded(m) /\ Seeded(n))
                 => /\ Pos(result, m) < Pos(result, n)
                    /\ Pos(input_files, m) > Pos(input_files, n)
            /\ (ReleasedTogether(m, n) /\ ReleasePlace(m) < ReleasePlace(n))
                 => /\ Pos(result, m) < Pos(result, n)
                    /\ Pos(input_files, m) > Pos(input_files, n)

\* a header added before a source file, both seeded, was returned after it
C6_Witness ==
    /\ SortReturned
    /\ \E m, n \in DOMAIN nodes :
         /\ m < n
         /\ nodes[m].is_header_file /\ nodes[n].is_source_file
         /\ Seeded(m) /\ Seeded(n)
         /\ Pos(input_files, m) > Pos(input_files, n)

\* C7 as stated: the external block holds one '#include <TOKEN>' line for each
\* distinct token text, each once, in lexicographic order of the token text.
C7_SortedByText ==
    pc = "done" =>
        /\ Len(ExternalBlockPrinted) = Cardinality(ExternalTokens)
        /\ \A t \in ExternalTokens :
             \E i \in DOMAIN ExternalBlockPrinted :
                 ExternalBlockPrinted[i] = STR_INCLUDE_OPEN \o t \o STR_GT
        /\ \A i, j \in DOMAIN ExternalBlockPrinted :
             i < j => StrLess(ExternalBlockPrinted[i], ExternalBlockPrinted[j])

\* C7, amended: the external block holds one '#include <PATH>' line for each
\* distinct external token taken as a path (tokens that differ only in
\* repeated separators are one path and print in normal form), each once, in
\* the order of the paths: part by part, each part compared as text.
C7_SortedByPath ==
    pc = "done" =>
        LET paths == {PathOf(t) : t \in ExternalTokens} IN
        /\ stdout[2] = <<>>
        /\ Len(ExternalBlockPrinted) = Cardinality(paths)
        /\ \A q \in paths :
             \E i \in DOMAIN ExternalBlockPrinted :
                 ExternalBlockPrinted[i] = STR_INCLUDE_OPEN \o PathStr(q) \o STR_GT
        /\ \A i, j \in DOMAIN ExternalBlockPrinted :
             i < j => \E q, r \in paths :
                        /\ ExternalBlockPrinted[i] = STR_INCLUDE_OPEN \o PathStr(q) \o STR_GT
                        /\ ExternalBlockPrinted[j] = STR_INCLUDE_OPEN \o PathStr(r) \o STR_GT
                        /\ PathLess(q, r)

\* 'a/a' and 'a.a' are both referenced, the first by two files, and printed
C7_Witness ==
    /\ pc = "done"
    /\ Len(ExternalBlockPrinted) = 2
    /\ Cardinality({f \in DOMAIN file_paths : LINE_EXT_DIR \in Range(file_paths[f].text)}) = 2
    /\ \E f \in DOMAIN file_paths : LINE_EXT_DOT \in Range(file_paths[f].text)

\* C8 as stated: the printed output holds exactly one guard line, the first,
\* a guard line being '#pragma once' with whitespace allowed anywhere, before
\* the '#' included.
C8_OneGuardLoose ==
    pc = "done" => {i \in DOMAIN stdout : IsGuardLineLoose(stdout[i])} = {1}

\* C8, amended: the printed output holds exactly one guard line, the first, a
\* guard line being one that matches ^#\s*pragma\s*once\s*$ : whitespace is
\* allowed after the '#', between the words and at the end, not before the '#'.
C8_OneGuard ==
    pc = "done" =>
        /\ stdout[1] = STR_PRAGMA_ONCE
        /\ {i \in DOMAIN stdout : MatchPragmaOnce(stdout[i])} = {1}

\* two files that each hold a guard line, one of them spaced, were printed
C8_Witness ==
    /\ pc = "done"
    /\ \E f, g \in DOMAIN file_paths :
         /\ f # g
         /\ LINE_GUARD \in Range(file_paths[f].text)
         /\ LINE_GUARD_SPACED \in Range(file_paths[g].text)

\* C9 as stated: topological_sort itself rejects a graph with no record.
C9_EmptyGraphRejected ==
    (SortCalled /\ Len(nodes) = 0) =>
        /\ ~SortReturned
        /\ pc = "exit" => err = "EmptyInput"

\* C9, amended: an empty file list is rejected by the file count check of
\* main, which prints 'No files found' and exits before any graph is built or
\* output assembled; topological_sort itself, called on a graph with no record,
\* returns the empty list and raises nothing.
C9_EmptyInput ==
    /\ (entry = "main" /\ Len(file_paths) = 0 /\ pc # "main") =>
         /\ pc = "exit"
         /\ err = "SystemExit"
         /\ stdout = <<STR_NO_FILES>>
         /\ output = <<>>
    /\ (entry = "graph" /\ Len(file_paths) = 0 /\ SortCalled) =>
         /\ pc \in {"loop", "returned"}
         /\ err = "none"
         /\ input_files = <<>>

\* topological_sort has returned on a graph with no record
C9_Witness ==
    /\ entry = "graph"
    /\ Len(nodes) = 0
    /\ pc = "returned"

\* C10: when every internal reference equals exactly one header's identity
\* and the depends-on relation has no cycle, topological_sort raises no cycle
\* error; every counter is the number of references not yet gone through and
\* so never negative; a header is in the queue or the result exactly when its
\* counter is 0, and never twice; and the loop ends with every record in the
\* result. A file that references one header twice counts twice.
C10_AcyclicSortSucceeds ==
    (SortCalled /\ UniquelyResolved /\ ~HasCycle) =>
        /\ err # "RuntimeError"
        /\ \A q \in DOMAIN in_degree :
             /\ in_degree[q] >= 0
             /\ in_degree[q] = Cardinality({i \in DOMAIN edges :
                                              edges[i][2] = q /\ ~EdgeProcessed(i)})
        /\ \A h \in Headers :
             (h \in Range(result \o queue)) <=> (in_degree[nodes[h].include_file_path] = 0)
        /\ \A n \in DOMAIN nodes :
             Cardinality({i \in DOMAIN (result \o queue) : (result \o queue)[i] = n}) <= 1
        /\ (pc \notin {"loop", "dec"}) =>
             /\ SortReturned
             /\ Range(result) = DOMAIN nodes

\* a file that references one header twice was sorted
C10_Witness ==
    /\ SortReturned
    /\ \E n \in DOMAIN nodes :
         \E i, j \in DOMAIN nodes[n].internal_includes :
             i # j /\ nodes[n].internal_includes[i] = nodes[n].internal_includes[j]

====
